---- MODULE Spec2Model ----
(***************************************************************************)
(* Model of avr/lcd_and_input.c: the HD44780 display driver, the timer     *)
(* interrupt that scrolls the display and debounces the two buttons, the   *)
(* staging store for transaction outputs, and the blocking confirmation    *)
(* workflows userDenied() and writeBackupSeed().                           *)
(*                                                                         *)
(* Two execution contexts exist: the timer interrupt TIMER0_COMPA_vect,    *)
(* which runs to completion, and the foreground.  The foreground is a      *)
(* program counter (pc) over the statements of the function it executes.   *)
(*                                                                         *)
(* Specifications, all over the same variables and the same Init:          *)
(*   SpecDebounce  the interrupt against freely changing pins              *)
(*   SpecStage     newOutputSeen, setTransactionFee, clearOutputsSeen      *)
(*   SpecPrompt    userDenied for every tag except sign-transaction        *)
(*   SpecSign      staging and the sign-transaction review of userDenied   *)
(*   SpecBackup    writeBackupSeed                                         *)
(*   SpecLcd       the display functions statement by statement, with the  *)
(*                 interrupt between any two statements                    *)
(*   SpecBounce    the interrupt, with the age of each debounced state     *)
(*   SpecLifetime  staging and reset between review, backup, stream error  *)
(*   SpecCheckpoint  the review and the backup, one after another          *)
(*   SpecConfirm   every kind of confirmation, one after another           *)
(*   SpecLine      the display functions as single steps, up to and past   *)
(*                 the capacity of a line                                  *)
(*   SpecWait      waitForButtonPress alone, with fairness                 *)
(*   SpecPause     the statements of writeString against counted ticks     *)
(* In the workflow specifications (Prompt, Sign, Backup, Lifetime,         *)
(* Checkpoint, Confirm) the display functions are single steps, the        *)
(* foreground reads one button flag per step, and the interrupt may run    *)
(* between any two steps.                                                  *)
(***************************************************************************)
EXTENDS Integers, Sequences, FiniteSets, TLC

(* ---------------- program constants ---------------- *)
MAX_OUTPUTS == 2
NUM_COLUMNS == 16
SCROLL_SPEED == 150
SCROLL_PAUSE == 450
DEBOUNCE_COUNT == 8
\* DDRAM bytes per line: the literal 40 in writeString's loop condition.
LINE_CAPACITY == 40
\* Bytes shown per page by writeBackupSeed: the literal 12 it tests byte_counter against.
PAGE_BYTES == 12
\* Widths of the C integer types used for the counters.
UINT8 == 256
UINT16 == 65536

(* ---------------- constants declared outside this file ---------------- *)
\* TEXT_AMOUNT_LENGTH, TEXT_ADDRESS_LENGTH and SEED_LENGTH come from headers
\* (hwinterface.h); the buffers hold LENGTH - 1 characters and a terminator.
TEXT_AMOUNT_LENGTH == 4
TEXT_ADDRESS_LENGTH == 3
SEED_LENGTH == 16

(* ---------------- bounds of the exploration ---------------- *)
\* Raw pin changes the environment makes in the debounce specification.
MaxToggles == 3
\* Interrupt ticks between two display operations in the workflow specifications.
MaxTicks == 10
\* Furthest column the display-driver specification writes to.
MaxLineLen == 18

VARIABLES
  \* display driver state (lines 198-209)
  current_column, max_line_size, scroll_pos, scroll_to_left, scroll_counter,
  \* debounced buttons and their counters (lines 210-217)
  accept_button, cancel_button, accept_debounce, cancel_debounce,
  \* staging store (lines 219-232)
  list_amount, list_address, list_index, transaction_fee_set, transaction_fee_amount,
  \* hardware: input pin levels (TRUE = high = released, pull-up), register select
  accept_pin, cancel_pin, rs_pin,
  \* foreground control: position, return position of a wait, current call, result
  pc, after, call, ret,
  \* foreground locals: i, r, byte_counter, and waitForButtonPress's two copies
  i, r, byte_counter, current_accept_button, current_cancel_button,
  \* local of the statement-level writeString: characters left to emit
  rem,
  \* observation: display/wait operations of the current call, in order
  log,
  \* observation: ticks taken, pin changes made, last raw samples per button,
  \* ticks since each debounced state last changed (saturating at
  \* DEBOUNCE_COUNT), and the inputs given to newOutputSeen since the last
  \* clearOutputsSeen
  ticks, toggles, accept_hist, cancel_hist, accept_age, cancel_age, staged

lcdVars == <<current_column, max_line_size, scroll_pos, scroll_to_left, scroll_counter, rs_pin>>
buttonVars == <<accept_button, cancel_button, accept_debounce, cancel_debounce>>
stageVars == <<list_amount, list_address, list_index, transaction_fee_set, transaction_fee_amount>>
pinVars == <<accept_pin, cancel_pin>>
fgVars == <<pc, after, call, ret, i, r, byte_counter, current_accept_button, current_cancel_button, rem>>
obsVars == <<ticks, toggles, accept_hist, cancel_hist, accept_age, cancel_age, staged>>
vars == <<lcdVars, buttonVars, stageVars, pinVars, fgVars, log, obsVars>>

(* ======================================================================= *)
(* The timer interrupt                                                     *)
(* ======================================================================= *)

\* The scroll half without its two boundary tests: it always moves.
ScrollTickNoBoundary ==
  LET c == (scroll_counter - 1) % UINT16 IN
  IF c # 0 THEN <<scroll_pos, scroll_to_left, c, rs_pin>>
  ELSE IF max_line_size > NUM_COLUMNS
       THEN IF scroll_to_left
            THEN <<(scroll_pos - 1) % UINT8, scroll_to_left, SCROLL_SPEED, FALSE>>
            ELSE <<(scroll_pos + 1) % UINT8, scroll_to_left, SCROLL_SPEED, FALSE>>
       ELSE <<scroll_pos, scroll_to_left, SCROLL_SPEED, rs_pin>>

\* Lines 239-272: the scroll half of the interrupt, as the new values of
\* <<scroll_pos, scroll_to_left, scroll_counter, rs_pin>>.
ScrollTick ==
  LET c == (scroll_counter - 1) % UINT16 IN
  IF c # 0 THEN <<scroll_pos, scroll_to_left, c, rs_pin>>
  ELSE IF max_line_size > NUM_COLUMNS
       THEN IF scroll_to_left
            THEN IF scroll_pos = 0
                 THEN <<scroll_pos, FALSE, SCROLL_SPEED, rs_pin>>
                 ELSE <<(scroll_pos - 1) % UINT8, scroll_to_left, SCROLL_SPEED, FALSE>>
            ELSE IF scroll_pos = max_line_size - NUM_COLUMNS
                 THEN <<scroll_pos, TRUE, SCROLL_SPEED, rs_pin>>
                 ELSE <<(scroll_pos + 1) % UINT8, scroll_to_left, SCROLL_SPEED, FALSE>>
       ELSE <<scroll_pos, scroll_to_left, SCROLL_SPEED, rs_pin>>

\* A debounce half with the else branch (counter reset on agreement) left out.
DebounceNoReset(button, debounce, temp) ==
  IF (button /\ temp) \/ (~button /\ ~temp)
  THEN LET d == (debounce + 1) % UINT8 IN
       <<IF d = DEBOUNCE_COUNT THEN ~button ELSE button, d>>
  ELSE <<button, debounce>>

\* A debounce half that flips whenever the counter is at or above the
\* threshold (>= in place of == at lines 287 and 302).
DebounceAtLeastCount(button, debounce, temp) ==
  IF (button /\ temp) \/ (~button /\ ~temp)
  THEN LET d == (debounce + 1) % UINT8 IN
       <<IF d >= DEBOUNCE_COUNT THEN ~button ELSE button, d>>
  ELSE <<button, 0>>

\* Lines 282-295 and 297-310: one button's debounce step, as the new values of
\* <<button, debounce counter>>.  temp is the sampled pin level; with the
\* pull-up, a high pin is a released button, so temp equal to the debounced
\* state is the mismatch.
Debounce(button, debounce, temp) ==
  IF (button /\ temp) \/ (~button /\ ~temp)
  THEN LET d == (debounce + 1) % UINT8 IN
       <<IF d = DEBOUNCE_COUNT THEN ~button ELSE button, d>>
  ELSE <<button, 0>>

\* Lines 235-311: the whole interrupt handler on the program's variables.
TIMER0_COMPA_vect ==
  LET s == ScrollTick
      a == Debounce(accept_button, accept_debounce, accept_pin)
      c == Debounce(cancel_button, cancel_debounce, cancel_pin)
  IN /\ scroll_pos' = s[1]
     /\ scroll_to_left' = s[2]
     /\ scroll_counter' = s[3]
     /\ rs_pin' = s[4]
     /\ accept_button' = a[1]
     /\ accept_debounce' = a[2]
     /\ cancel_button' = c[1]
     /\ cancel_debounce' = c[2]
     /\ UNCHANGED <<current_column, max_line_size, stageVars, pinVars, fgVars, log>>

\* The last DEBOUNCE_COUNT samples of a pin, newest last.
Sampled(hist, level) ==
  LET h == Append(hist, level) IN
  IF Len(h) > DEBOUNCE_COUNT THEN Tail(h) ELSE h

(* ======================================================================= *)
(* Initial state: after initLcdAndInput() (lines 330-362)                  *)
(* ======================================================================= *)
\* A static buffer before anything is copied into it: all zero bytes.
ZeroBuf(n) == [k \in 1..n |-> "NUL"]

Init ==
  /\ current_column = 0 /\ max_line_size = 0 /\ scroll_pos = 0
  /\ scroll_to_left = FALSE /\ scroll_counter = SCROLL_SPEED
  /\ rs_pin = FALSE
  /\ accept_button = FALSE /\ cancel_button = FALSE
  /\ accept_debounce = 0 /\ cancel_debounce = 0
  /\ list_amount = [k \in 0..(MAX_OUTPUTS - 1) |-> ZeroBuf(TEXT_AMOUNT_LENGTH)]
  /\ list_address = [k \in 0..(MAX_OUTPUTS - 1) |-> ZeroBuf(TEXT_ADDRESS_LENGTH)]
  /\ list_index = 0
  /\ transaction_fee_set = FALSE
  /\ transaction_fee_amount = ZeroBuf(TEXT_AMOUNT_LENGTH)
  /\ accept_pin = TRUE /\ cancel_pin = TRUE
  /\ pc = "idle" /\ after = "idle"
  /\ call = [op |-> "initLcdAndInput", arg |-> 0]
  /\ ret = FALSE
  /\ i = 0 /\ r = TRUE /\ byte_counter = 0
  /\ current_accept_button = FALSE /\ current_cancel_button = FALSE
  /\ rem = 0
  /\ log = <<>>
  /\ ticks = 0 /\ toggles = 0
  /\ accept_hist = <<>> /\ cancel_hist = <<>>
  /\ accept_age = DEBOUNCE_COUNT /\ cancel_age = DEBOUNCE_COUNT
  /\ staged = <<>>

(* ======================================================================= *)
(* Debounce specification: the interrupt against changing pin levels       *)
(* ======================================================================= *)

\* The environment changes the level of one input pin.
TogglePin ==
  /\ toggles < MaxToggles
  /\ \/ accept_pin' = ~accept_pin /\ UNCHANGED cancel_pin
     \/ cancel_pin' = ~cancel_pin /\ UNCHANGED accept_pin
  /\ toggles' = toggles + 1
  /\ UNCHANGED <<lcdVars, buttonVars, stageVars, fgVars, log, ticks, accept_hist, cancel_hist, accept_age, cancel_age, staged>>

\* A tick, with the samples it took recorded.
TickSampled ==
  /\ TIMER0_COMPA_vect
  /\ accept_hist' = Sampled(accept_hist, accept_pin)
  /\ cancel_hist' = Sampled(cancel_hist, cancel_pin)
  /\ UNCHANGED <<ticks, toggles, accept_age, cancel_age, staged>>

NextDebounce == TogglePin \/ TickSampled

SpecDebounce == Init /\ [][NextDebounce]_vars

(* ---------------- flip-spacing specification ---------------- *)
\* The ticks since a debounced state last changed: 0 on the tick that changes
\* it, one more on every other tick, up to DEBOUNCE_COUNT.
Aged(age, flipped) ==
  IF flipped THEN 0
  ELSE IF age < DEBOUNCE_COUNT THEN age + 1 ELSE DEBOUNCE_COUNT

\* A tick, with the age of each debounced state recorded.
TickAged ==
  /\ TIMER0_COMPA_vect
  /\ accept_age' = Aged(accept_age, accept_button' # accept_button)
  /\ cancel_age' = Aged(cancel_age, cancel_button' # cancel_button)
  /\ UNCHANGED <<ticks, toggles, accept_hist, cancel_hist, staged>>

NextBounce == TogglePin \/ TickAged

SpecBounce == Init /\ [][NextBounce]_vars

(* ======================================================================= *)
(* Display driver, call level: each function as one step on the record of  *)
(* the driver's variables and the operations log                           *)
(* ======================================================================= *)

\* A string in program memory: its identifier and its length in characters.
Pgm(id, len) == [id |-> id, len |-> len]

\* Lines 519-567 and 724-730: the prompt strings.
str_delete_line0 == Pgm("str_delete_line0", 22)
str_delete_line1 == Pgm("str_delete_line1", 20)
str_new_line0 == Pgm("str_new_line0", 10)
str_new_line1 == Pgm("str_new_line1", 8)
str_sign_part0 == Pgm("str_sign_part0", 8)
str_sign_part1 == Pgm("str_sign_part1", 7)
str_fee_part0 == Pgm("str_fee_part0", 16)
str_fee_part1 == Pgm("str_fee_part1", 4)
str_format_line0 == Pgm("str_format_line0", 14)
str_format_line1 == Pgm("str_format_line1", 18)
str_change_name_line0 == Pgm("str_change_name_line0", 15)
str_change_name_line1 == Pgm("str_change_name_line1", 15)
str_backup_line0 == Pgm("str_backup_line0", 17)
str_backup_line1 == Pgm("str_backup_line1", 16)
str_restore_line0 == Pgm("str_restore_line0", 14)
str_restore_line1 == Pgm("str_restore_line1", 12)
str_change_key_line0 == Pgm("str_change_key_line0", 14)
str_change_key_line1 == Pgm("str_change_key_line1", 15)
str_get_master_key_line0 == Pgm("str_get_master_key_line0", 13)
str_get_master_key_line1 == Pgm("str_get_master_key_line1", 11)
str_unknown_line0 == Pgm("str_unknown_line0", 31)
str_unknown_line1 == Pgm("str_unknown_line1", 28)
str_stream_error == Pgm("str_stream_error", 12)
str_seed_encrypted_or_not_line0 == Pgm("str_seed_encrypted_or_not_line0", 9)
str_seed_encrypted_line1 == Pgm("str_seed_encrypted_line1", 9)
str_seed_not_encrypted_line1 == Pgm("str_seed_not_encrypted_line1", 13)

\* The driver's variables and the log, as a record the call-level functions
\* transform.
Lcd ==
  [col |-> current_column, max |-> max_line_size, pos |-> scroll_pos,
   left |-> scroll_to_left, cnt |-> scroll_counter, rs |-> rs_pin, log |-> log]

\* Store the record back into the variables.
SetLcd(d) ==
  /\ current_column' = d.col
  /\ max_line_size' = d.max
  /\ scroll_pos' = d.pos
  /\ scroll_to_left' = d.left
  /\ scroll_counter' = d.cnt
  /\ rs_pin' = d.rs
  /\ log' = d.log

\* Lines 314-324.
clearLcd(d) ==
  [col |-> 0, max |-> 0, pos |-> 0, left |-> FALSE, cnt |-> SCROLL_SPEED,
   rs |-> FALSE, log |-> Append(d.log, <<"clear">>)]

\* Lines 369-381.
gotoStartOfLine(d, line) ==
  [d EXCEPT !.rs = FALSE, !.col = 0, !.log = Append(@, <<"goto", line>>)]

\* The loop of writeString with the column test of line 404 off by one.
RECURSIVE writeLoopOffByOne(_, _)
writeLoopOffByOne(d, left) ==
  IF left # 0 /\ d.col <= LINE_CAPACITY
  THEN LET col == d.col + 1 IN
       writeLoopOffByOne([d EXCEPT !.col = col,
                                   !.max = IF col > d.max THEN col ELSE d.max],
                         left - 1)
  ELSE d

\* Lines 404-421: the loop of writeString with left characters before the
\* terminator; each pass emits one character and advances the column.
RECURSIVE writeLoop(_, _)
writeLoop(d, left) ==
  IF left # 0 /\ d.col < LINE_CAPACITY
  THEN LET col == d.col + 1 IN
       writeLoop([d EXCEPT !.col = col,
                           !.max = IF col > d.max THEN col ELSE d.max],
                 left - 1)
  ELSE d

\* Lines 390-423.  str is a Pgm record when is_progmem, else the characters
\* of a null-terminated string in RAM.  The log entry names the string and
\* the number of characters emitted.
writeString(d, str, is_progmem) ==
  LET len == IF is_progmem THEN str.len ELSE Len(str)
      e == writeLoop([d EXCEPT !.rs = TRUE], len)
      emitted == e.col - d.col
  IN [e EXCEPT !.cnt = SCROLL_PAUSE,
               !.log = Append(@, IF is_progmem
                                 THEN <<"pgm", str.id, emitted>>
                                 ELSE <<"ram", str, emitted>>)]

(* ======================================================================= *)
(* Staging store                                                           *)
(* ======================================================================= *)
NUL == "NUL"

\* strncpy(dest, src, n) followed by dest[n - 1] = 0 (lines 445-448, 461-462):
\* the n bytes of the destination buffer.
strncpyTerminated(src, n) ==
  [k \in 1..n |-> IF k <= Len(src) /\ k < n THEN src[k] ELSE NUL]

\* The characters of the null-terminated string held in a buffer.
RECURSIVE CString(_)
CString(buf) ==
  IF buf = <<>> \/ Head(buf) = NUL THEN <<>> ELSE <<Head(buf)>> \o CString(Tail(buf))

\* The first MAX_OUTPUTS inputs offered to newOutputSeen since the last reset.
Offered(seen, input) ==
  IF Len(seen) < MAX_OUTPUTS THEN Append(seen, input) ELSE seen

\* newOutputSeen with its capacity test (line 439) off by one.
newOutputSeenOffByOne(text_amount, text_address) ==
  /\ pc = "idle"
  /\ call' = [op |-> "newOutputSeen", arg |-> <<text_amount, text_address>>]
  /\ IF list_index > MAX_OUTPUTS
     THEN /\ ret' = TRUE
          /\ UNCHANGED stageVars
     ELSE /\ list_amount' = [k \in DOMAIN list_amount \cup {list_index} |->
                               IF k = list_index
                               THEN strncpyTerminated(text_amount, TEXT_AMOUNT_LENGTH)
                               ELSE list_amount[k]]
          /\ list_address' = [k \in DOMAIN list_address \cup {list_index} |->
                               IF k = list_index
                               THEN strncpyTerminated(text_address, TEXT_ADDRESS_LENGTH)
                               ELSE list_address[k]]
          /\ list_index' = (list_index + 1) % UINT8
          /\ ret' = FALSE
          /\ UNCHANGED <<transaction_fee_set, transaction_fee_amount>>
  /\ staged' = Offered(staged, <<text_amount, text_address>>)
  /\ log' = <<>>
  /\ UNCHANGED <<lcdVars, buttonVars, pinVars, pc, after, i, r, byte_counter,
                 current_accept_button, current_cancel_button, rem,
                 ticks, toggles, accept_hist, cancel_hist, accept_age, cancel_age>>

\* Lines 434-451.
newOutputSeen(text_amount, text_address) ==
  /\ pc = "idle"
  /\ call' = [op |-> "newOutputSeen", arg |-> <<text_amount, text_address>>]
  /\ IF list_index >= MAX_OUTPUTS
     THEN /\ ret' = TRUE
          /\ UNCHANGED stageVars
     ELSE /\ list_amount' = [list_amount EXCEPT ![list_index] =
                               strncpyTerminated(text_amount, TEXT_AMOUNT_LENGTH)]
          /\ list_address' = [list_address EXCEPT ![list_index] =
                               strncpyTerminated(text_address, TEXT_ADDRESS_LENGTH)]
          /\ list_index' = (list_index + 1) % UINT8
          /\ ret' = FALSE
          /\ UNCHANGED <<transaction_fee_set, transaction_fee_amount>>
  /\ staged' = Offered(staged, <<text_amount, text_address>>)
  /\ log' = <<>>
  /\ UNCHANGED <<lcdVars, buttonVars, pinVars, pc, after, i, r, byte_counter,
                 current_accept_button, current_cancel_button, rem,
                 ticks, toggles, accept_hist, cancel_hist, accept_age, cancel_age>>

\* Lines 459-464.
setTransactionFee(text_amount) ==
  /\ pc = "idle"
  /\ call' = [op |-> "setTransactionFee", arg |-> text_amount]
  /\ transaction_fee_amount' = strncpyTerminated(text_amount, TEXT_AMOUNT_LENGTH)
  /\ transaction_fee_set' = TRUE
  /\ log' = <<>>
  /\ UNCHANGED <<list_amount, list_address, list_index, staged>>
  /\ UNCHANGED <<lcdVars, buttonVars, pinVars, pc, after, ret, i, r, byte_counter,
                 current_accept_button, current_cancel_button, rem,
                 ticks, toggles, accept_hist, cancel_hist, accept_age, cancel_age>>

\* Lines 468-472.
clearOutputsSeen ==
  /\ pc = "idle"
  /\ call' = [op |-> "clearOutputsSeen", arg |-> 0]
  /\ list_index' = 0
  /\ transaction_fee_set' = FALSE
  /\ staged' = <<>>
  /\ log' = <<>>
  /\ UNCHANGED <<list_amount, list_address, transaction_fee_amount>>
  /\ UNCHANGED <<lcdVars, buttonVars, pinVars, pc, after, ret, i, r, byte_counter,
                 current_accept_button, current_cancel_button, rem,
                 ticks, toggles, accept_hist, cancel_hist, accept_age, cancel_age>>

(* ---------------- staging specification ---------------- *)
\* Texts the parser hands over; the longest exceeds both buffers.
StageTexts == {<<"1">>, <<"2", "5">>, <<"1", "2", "3", "4", "5", "6">>}

StageOutput == \E a \in StageTexts, b \in StageTexts : newOutputSeen(a, b)
StageFee == \E a \in StageTexts : setTransactionFee(a)
StageReset == clearOutputsSeen

NextStage == StageOutput \/ StageFee \/ StageReset

SpecStage == Init /\ [][NextStage]_vars

(* ======================================================================= *)
(* Busy-wait primitives (shared by userDenied and writeBackupSeed)         *)
(* ======================================================================= *)
\* What a foreground step leaves alone: the interrupt's variables, the pins
\* and the observations of the environment.
NoEnv == UNCHANGED <<buttonVars, pinVars, ticks, toggles, accept_hist, cancel_hist, accept_age, cancel_age>>

\* The same for a step that writes to the display when wrote holds: the count
\* of ticks since the last display operation starts again.
NoEnvDisplay(wrote) ==
  /\ ticks' = IF wrote THEN 0 ELSE ticks
  /\ UNCHANGED <<buttonVars, pinVars, toggles, accept_hist, cancel_hist, accept_age, cancel_age>>

\* Entering waitForNoButtonPress / waitForButtonPress, to continue at k.
EnterWaitNo(k) == pc' = "wn_accept" /\ after' = k
EnterWaitPress(k) == pc' = "wp_accept" /\ after' = k

\* Line 480, first operand: the loop goes on while accept_button reads true.
WaitNoReadAccept ==
  /\ pc = "wn_accept"
  /\ ~accept_button
  /\ pc' = "wn_cancel"
  /\ UNCHANGED <<lcdVars, stageVars, after, call, ret, i, r, byte_counter,
                 current_accept_button, current_cancel_button, rem, log, staged>>
  /\ NoEnv

\* Line 480, second operand: read cancel_button; loop again if it is true,
\* return if it is false.
WaitNoReadCancel ==
  /\ pc = "wn_cancel"
  /\ IF cancel_button
     THEN pc' = "wn_accept" /\ UNCHANGED log
     ELSE pc' = after /\ log' = Append(log, <<"released">>)
  /\ UNCHANGED <<lcdVars, stageVars, after, call, ret, i, r, byte_counter,
                 current_accept_button, current_cancel_button, rem, staged>>
  /\ NoEnv

\* Line 495.
WaitPressReadAccept ==
  /\ pc = "wp_accept"
  /\ current_accept_button' = accept_button
  /\ pc' = "wp_cancel"
  /\ UNCHANGED <<lcdVars, stageVars, after, call, ret, i, r, byte_counter,
                 current_cancel_button, rem, log, staged>>
  /\ NoEnv

\* Lines 496-497 without the loop test: it returns after one pair of reads.
WaitPressReadCancelNoLoop ==
  /\ pc = "wp_cancel"
  /\ current_cancel_button' = cancel_button
  /\ pc' = after
  /\ log' = Append(log, <<"press", current_accept_button, cancel_button>>)
  /\ UNCHANGED <<lcdVars, stageVars, after, call, ret, i, r, byte_counter,
                 current_accept_button, rem, staged>>
  /\ NoEnv

\* Lines 496-497 with a loop test that looks at the accept copy only.
WaitPressReadCancelAcceptOnly ==
  /\ pc = "wp_cancel"
  /\ current_cancel_button' = cancel_button
  /\ IF ~current_accept_button
     THEN pc' = "wp_accept" /\ UNCHANGED log
     ELSE /\ pc' = after
          /\ log' = Append(log, <<"press", current_accept_button, cancel_button>>)
  /\ UNCHANGED <<lcdVars, stageVars, after, call, ret, i, r, byte_counter,
                 current_accept_button, rem, staged>>
  /\ NoEnv

\* Lines 496-497: read cancel_button, then the loop test on the two copies
\* (the test reads locals only, so it is one step with the read).
WaitPressReadCancel ==
  /\ pc = "wp_cancel"
  /\ current_cancel_button' = cancel_button
  /\ IF ~current_accept_button /\ ~cancel_button
     THEN pc' = "wp_accept" /\ UNCHANGED log
     ELSE /\ pc' = after
          /\ log' = Append(log, <<"press", current_accept_button, cancel_button>>)
  /\ UNCHANGED <<lcdVars, stageVars, after, call, ret, i, r, byte_counter,
                 current_accept_button, rem, staged>>
  /\ NoEnv

\* Lines 498-505 with the branches exchanged.
waitForButtonPressInverted == IF current_accept_button THEN TRUE ELSE FALSE

\* Lines 498-505: the value waitForButtonPress returns.
waitForButtonPressResult == IF current_accept_button THEN FALSE ELSE TRUE

(* ======================================================================= *)
(* userDenied (lines 574-700)                                              *)
(* ======================================================================= *)
ASKUSER_SIGN_TRANSACTION == "ASKUSER_SIGN_TRANSACTION"

\* The eight tags handled by one fixed two-line prompt.
SingleScreenCommands ==
  {"ASKUSER_NUKE_WALLET", "ASKUSER_NEW_ADDRESS", "ASKUSER_FORMAT",
   "ASKUSER_CHANGE_NAME", "ASKUSER_BACKUP_WALLET", "ASKUSER_RESTORE_WALLET",
   "ASKUSER_CHANGE_KEY", "ASKUSER_GET_MASTER_KEY"}

\* Tags no branch of userDenied names.
OtherCommands == {"ASKUSER_OTHER_A", "ASKUSER_OTHER_B"}

Commands == SingleScreenCommands \cup {ASKUSER_SIGN_TRANSACTION} \cup OtherCommands

\* The two prompt lines each branch of userDenied writes (the final else
\* branch for every other tag).
PromptLines(command) ==
  CASE command = "ASKUSER_NUKE_WALLET" -> <<str_delete_line0, str_delete_line1>>
    [] command = "ASKUSER_NEW_ADDRESS" -> <<str_new_line0, str_new_line1>>
    [] command = "ASKUSER_FORMAT" -> <<str_format_line0, str_format_line1>>
    [] command = "ASKUSER_CHANGE_NAME" -> <<str_change_name_line0, str_change_name_line1>>
    [] command = "ASKUSER_BACKUP_WALLET" -> <<str_backup_line0, str_backup_line1>>
    [] command = "ASKUSER_RESTORE_WALLET" -> <<str_restore_line0, str_restore_line1>>
    [] command = "ASKUSER_CHANGE_KEY" -> <<str_change_key_line0, str_change_key_line1>>
    [] command = "ASKUSER_GET_MASTER_KEY" -> <<str_get_master_key_line0, str_get_master_key_line1>>
    [] OTHER -> <<str_unknown_line0, str_unknown_line1>>

\* Lines 579-584 (and the same in every branch): clearLcd, r = true, then the
\* sign-transaction loop or the wait for release before a prompt.
userDenied(command) ==
  /\ pc = "idle"
  /\ call' = [op |-> "userDenied", arg |-> command]
  /\ SetLcd(clearLcd([Lcd EXCEPT !.log = <<>>]))
  /\ r' = TRUE
  /\ IF command = ASKUSER_SIGN_TRANSACTION
     THEN i' = 0 /\ pc' = "ud_sign_loop" /\ UNCHANGED after
     ELSE EnterWaitNo("ud_prompt") /\ UNCHANGED i
  /\ ret' = FALSE
  /\ UNCHANGED <<stageVars, byte_counter, current_accept_button,
                 current_cancel_button, rem, staged>>
  /\ NoEnvDisplay(TRUE)

\* Lines 585-589 (and the same in every single-screen branch): both prompt
\* lines, then waitForButtonPress.
UdPrompt ==
  /\ pc = "ud_prompt"
  /\ LET p == PromptLines(call.arg)
         d1 == writeString(gotoStartOfLine(Lcd, 0), p[1], TRUE)
         d2 == writeString(gotoStartOfLine(d1, 1), p[2], TRUE)
     IN SetLcd(d2)
  /\ EnterWaitPress("ud_pressed")
  /\ UNCHANGED <<stageVars, call, ret, i, r, byte_counter, current_accept_button,
                 current_cancel_button, rem, staged>>
  /\ NoEnvDisplay(TRUE)

\* The else branch (line 695) taking the press as its result.
UdResultNoOverride(command) == waitForButtonPressResult

\* Lines 589 and 694-695: r takes the press for a recognized tag; the else
\* branch discards the press and denies.
UdResult(command) ==
  IF command \in SingleScreenCommands THEN waitForButtonPressResult ELSE TRUE

UdPressed ==
  /\ pc = "ud_pressed"
  /\ r' = UdResult(call.arg)
  /\ pc' = "ud_end"
  /\ current_accept_button' = FALSE /\ current_cancel_button' = FALSE
  /\ UNCHANGED <<lcdVars, stageVars, after, call, ret, i, byte_counter, rem, log, staged>>
  /\ NoEnv

\* The loop test and clearLcd of lines 602-605 without the wait for release.
UdSignLoopNoRelease ==
  /\ pc = "ud_sign_loop"
  /\ IF i < list_index
     THEN SetLcd(clearLcd(Lcd)) /\ pc' = "ud_sign_output" /\ UNCHANGED after
     ELSE pc' = "ud_fee" /\ UNCHANGED <<lcdVars, log, after>>
  /\ UNCHANGED <<stageVars, call, ret, i, r, byte_counter, current_accept_button,
                 current_cancel_button, rem, staged>>
  /\ NoEnvDisplay(i < list_index)

\* Lines 602-605: the loop test, then clearLcd and the wait for release.
UdSignLoop ==
  /\ pc = "ud_sign_loop"
  /\ IF i < list_index
     THEN SetLcd(clearLcd(Lcd)) /\ EnterWaitNo("ud_sign_output")
     ELSE pc' = "ud_fee" /\ UNCHANGED <<lcdVars, log, after>>
  /\ UNCHANGED <<stageVars, call, ret, i, r, byte_counter, current_accept_button,
                 current_cancel_button, rem, staged>>
  /\ NoEnvDisplay(i < list_index)

\* Lines 606-612: "Sending <amount> BTC to" / address, then waitForButtonPress.
UdSignOutput ==
  /\ pc = "ud_sign_output"
  /\ LET d1 == writeString(gotoStartOfLine(Lcd, 0), str_sign_part0, TRUE)
         d2 == writeString(d1, CString(list_amount[i]), FALSE)
         d3 == writeString(d2, str_sign_part1, TRUE)
         d4 == writeString(gotoStartOfLine(d3, 1), CString(list_address[i]), FALSE)
     IN SetLcd(d4)
  /\ EnterWaitPress("ud_sign_pressed")
  /\ UNCHANGED <<stageVars, call, ret, i, r, byte_counter, current_accept_button,
                 current_cancel_button, rem, staged>>
  /\ NoEnvDisplay(TRUE)

\* The loop of lines 612-619 without its break: it goes on after a denial.
SignNextNoBreak(denied) == "ud_sign_loop"

\* Lines 613-619: a denial leaves the loop, an approval takes the next output.
SignNext(denied) == IF denied THEN "ud_fee" ELSE "ud_sign_loop"

\* Lines 612-619 and the i++ of line 602.
UdSignPressed ==
  /\ pc = "ud_sign_pressed"
  /\ r' = waitForButtonPressResult
  /\ pc' = SignNext(r')
  /\ i' = IF SignNext(r') = "ud_sign_loop" THEN (i + 1) % UINT8 ELSE i
  /\ current_accept_button' = FALSE /\ current_cancel_button' = FALSE
  /\ UNCHANGED <<lcdVars, stageVars, after, call, ret, byte_counter, rem, log, staged>>
  /\ NoEnv

\* The test of line 621 without its !r conjunct.
FeeScreenDueIgnoringR == transaction_fee_set

\* The test of line 621 without its transaction_fee_set conjunct.
FeeScreenDueIgnoringFlag == ~r

\* Line 621.
FeeScreenDue == ~r /\ transaction_fee_set

\* Lines 621-624.
UdFee ==
  /\ pc = "ud_fee"
  /\ IF FeeScreenDue
     THEN SetLcd(clearLcd(Lcd)) /\ EnterWaitNo("ud_fee_screen")
     ELSE pc' = "ud_end" /\ UNCHANGED <<lcdVars, log, after>>
  /\ UNCHANGED <<stageVars, call, ret, i, r, byte_counter, current_accept_button,
                 current_cancel_button, rem, staged>>
  /\ NoEnvDisplay(FeeScreenDue)

\* Lines 625-630.
UdFeeScreen ==
  /\ pc = "ud_fee_screen"
  /\ LET d1 == writeString(gotoStartOfLine(Lcd, 0), str_fee_part0, TRUE)
         d2 == writeString(gotoStartOfLine(d1, 1), CString(transaction_fee_amount), FALSE)
         d3 == writeString(d2, str_fee_part1, TRUE)
     IN SetLcd(d3)
  /\ EnterWaitPress("ud_fee_pressed")
  /\ UNCHANGED <<stageVars, call, ret, i, r, byte_counter, current_accept_button,
                 current_cancel_button, rem, staged>>
  /\ NoEnvDisplay(TRUE)

\* Line 630.
UdFeePressed ==
  /\ pc = "ud_fee_pressed"
  /\ r' = waitForButtonPressResult
  /\ pc' = "ud_end"
  /\ current_accept_button' = FALSE /\ current_cancel_button' = FALSE
  /\ UNCHANGED <<lcdVars, stageVars, after, call, ret, i, byte_counter, rem, log, staged>>
  /\ NoEnv

\* Lines 697-699 with a reset of the staged list added to the exit.
UdEndClearsOutputs ==
  /\ pc = "ud_end"
  /\ SetLcd(clearLcd(Lcd))
  /\ ret' = r
  /\ pc' = "idle"
  /\ i' = 0
  /\ list_index' = 0
  /\ transaction_fee_set' = FALSE
  /\ UNCHANGED <<list_amount, list_address, transaction_fee_amount>>
  /\ UNCHANGED <<after, call, r, byte_counter, current_accept_button,
                 current_cancel_button, rem, staged>>
  /\ NoEnvDisplay(TRUE)

\* Lines 698-699.
UdEnd ==
  /\ pc = "ud_end"
  /\ SetLcd(clearLcd(Lcd))
  /\ ret' = r
  /\ pc' = "idle"
  /\ i' = 0
  /\ UNCHANGED <<stageVars, after, call, r, byte_counter, current_accept_button,
                 current_cancel_button, rem, staged>>
  /\ NoEnvDisplay(TRUE)

(* ======================================================================= *)
(* Environment of the workflows: ticks and the user's fingers              *)
(* ======================================================================= *)
\* A tick of the interrupt while a workflow runs; at most MaxTicks ticks are
\* explored between two display operations of the foreground.
Tick ==
  /\ ticks < MaxTicks
  /\ TIMER0_COMPA_vect
  /\ ticks' = ticks + 1
  /\ UNCHANGED <<toggles, accept_hist, cancel_hist, accept_age, cancel_age, staged>>

\* The user presses or releases a button: the pin level changes.  In the
\* workflow specifications a finger moves only while that button's debouncer
\* is at rest (counter 0); shorter contacts are explored in SpecDebounce.
PressOrRelease ==
  /\ \/ accept_debounce = 0 /\ accept_pin' = ~accept_pin /\ UNCHANGED cancel_pin
     \/ cancel_debounce = 0 /\ cancel_pin' = ~cancel_pin /\ UNCHANGED accept_pin
  /\ UNCHANGED <<lcdVars, buttonVars, stageVars, fgVars, log, obsVars>>

(* ---------------- single-prompt specification ---------------- *)
\* userDenied for every tag except sign-transaction.
AskPrompt == \E command \in Commands \ {ASKUSER_SIGN_TRANSACTION} : userDenied(command)

NextPrompt ==
  \/ AskPrompt
  \/ WaitNoReadAccept \/ WaitNoReadCancel
  \/ WaitPressReadAccept \/ WaitPressReadCancel
  \/ UdPrompt \/ UdPressed \/ UdEnd
  \/ Tick \/ PressOrRelease

SpecPrompt == Init /\ [][NextPrompt]_vars

(* ---------------- sign-transaction specification ---------------- *)
\* Outputs and fee the parser stages before a review.
SignOutputs == {<<<<"1">>, <<"x">>>>, <<<<"2">>, <<"y">>>>}
SignFees == {<<"7">>}

SignStageOutput == \E o \in SignOutputs : newOutputSeen(o[1], o[2])
SignStageFee == \E a \in SignFees : setTransactionFee(a)
AskSign == userDenied(ASKUSER_SIGN_TRANSACTION)

NextSign ==
  \/ SignStageOutput \/ SignStageFee
  \/ AskSign
  \/ WaitNoReadAccept \/ WaitNoReadCancel
  \/ WaitPressReadAccept \/ WaitPressReadCancel
  \/ UdSignLoop \/ UdSignOutput \/ UdSignPressed
  \/ UdFee \/ UdFeeScreen \/ UdFeePressed
  \/ UdEnd
  \/ Tick \/ PressOrRelease

SpecSign == Init /\ [][NextSign]_vars

(* ======================================================================= *)
(* writeBackupSeed (lines 743-827)                                         *)
(* ======================================================================= *)
HexDigits == <<"0", "1", "2", "3", "4", "5", "6", "7", "8", "9">>
HexLetters == <<"a", "b", "c", "d", "e", "f">>

\* Lines 708-720.
nibbleToHex(nibble) ==
  LET temp == nibble % 16 IN
  IF temp < 10 THEN HexDigits[temp + 1] ELSE HexLetters[(temp - 10) + 1]

\* Lines 782-784: str[1] and str[2] for one_byte.
HexByte(one_byte) == <<nibbleToHex(one_byte \div 16), nibbleToHex(one_byte)>>

\* The page test of line 786 never true.
PageFullNever(counter) == FALSE

\* Line 786.
PageFull(counter) == counter = PAGE_BYTES

\* Lines 780-817: the passes of the loop from byte k (0-based) with counter
\* bytes on the screen, up to the next full page or the end of the seed, as
\* <<display record, i, byte_counter>>.
RECURSIVE WritePasses(_, _, _, _)
WritePasses(d, seed, k, counter) ==
  IF k < SEED_LENGTH /\ ~PageFull(counter)
  THEN LET d1 == IF counter = 0 THEN gotoStartOfLine(d, 0)
                 ELSE IF counter = 6 THEN gotoStartOfLine(d, 1)
                 ELSE d
           str == IF counter % 2 = 0
                  THEN <<" ">> \o HexByte(seed[k + 1])
                  ELSE HexByte(seed[k + 1])
       IN WritePasses(writeString(d1, str, FALSE), seed, (k + 1) % UINT8,
                      (counter + 1) % UINT8)
  ELSE <<d, k, counter>>

\* The test of line 750 never true: every destination is taken for the display.
DestinationUnsupportedNever(destination_device) == FALSE

\* Line 750.
DestinationUnsupported(destination_device) == destination_device # 0

\* Lines 750-757: a destination other than 0 fails at once; otherwise clearLcd
\* and the wait for release before the status screen.
writeBackupSeed(seed, is_encrypted, destination_device) ==
  /\ pc = "idle"
  /\ call' = [op |-> "writeBackupSeed",
              arg |-> [seed |-> seed, is_encrypted |-> is_encrypted,
                       destination_device |-> destination_device]]
  /\ IF DestinationUnsupported(destination_device)
     THEN /\ ret' = TRUE
          /\ log' = <<>>
          /\ UNCHANGED <<lcdVars, pc, after>>
     ELSE /\ ret' = FALSE
          /\ SetLcd(clearLcd([Lcd EXCEPT !.log = <<>>]))
          /\ EnterWaitNo("wbs_status")
  /\ UNCHANGED <<stageVars, i, r, byte_counter, current_accept_button,
                 current_cancel_button, rem, staged>>
  /\ NoEnvDisplay(~DestinationUnsupported(destination_device))

\* Lines 758-768: the status screen, then waitForButtonPress.
WbsStatus ==
  /\ pc = "wbs_status"
  /\ LET d1 == writeString(gotoStartOfLine(Lcd, 0), str_seed_encrypted_or_not_line0, TRUE)
         d2 == writeString(gotoStartOfLine(d1, 1),
                           IF call.arg.is_encrypted THEN str_seed_encrypted_line1
                           ELSE str_seed_not_encrypted_line1, TRUE)
     IN SetLcd(d2)
  /\ EnterWaitPress("wbs_status_pressed")
  /\ UNCHANGED <<stageVars, call, ret, i, r, byte_counter, current_accept_button,
                 current_cancel_button, rem, staged>>
  /\ NoEnvDisplay(TRUE)

\* Lines 769-774 with the test of line 769 left out: any press goes on.
WbsStatusPressedIgnored ==
  /\ pc = "wbs_status_pressed"
  /\ EnterWaitNo("wbs_loop")
  /\ current_accept_button' = FALSE /\ current_cancel_button' = FALSE
  /\ UNCHANGED <<lcdVars, log, ret, stageVars, call, i, r, byte_counter, rem, staged>>
  /\ NoEnvDisplay(FALSE)

\* Lines 769-774: cancel clears and fails; accept waits for release.
WbsStatusPressed ==
  /\ pc = "wbs_status_pressed"
  /\ IF waitForButtonPressResult
     THEN /\ SetLcd(clearLcd(Lcd))
          /\ ret' = TRUE
          /\ pc' = "idle"
          /\ UNCHANGED after
     ELSE /\ EnterWaitNo("wbs_loop")
          /\ UNCHANGED <<lcdVars, log, ret>>
  /\ current_accept_button' = FALSE /\ current_cancel_button' = FALSE
  /\ UNCHANGED <<stageVars, call, i, r, byte_counter, rem, staged>>
  /\ NoEnvDisplay(waitForButtonPressResult)

\* Lines 776-817: byte_counter = 0, i = 0 and the passes of the loop that
\* write the first page.
WbsFirstPage ==
  /\ pc = "wbs_loop"
  /\ LET w == WritePasses(Lcd, call.arg.seed, 0, 0) IN
       /\ SetLcd(w[1])
       /\ i' = w[2]
       /\ byte_counter' = w[3]
  /\ pc' = "wbs_test"
  /\ UNCHANGED <<stageVars, after, call, ret, r, current_accept_button,
                 current_cancel_button, rem, staged>>
  /\ NoEnvDisplay(TRUE)

\* Lines 781 and 786-788, or 818: with a byte left the page is full and is
\* confirmed; with none left the last page is confirmed.
WbsTest ==
  /\ pc = "wbs_test"
  /\ EnterWaitNo("wbs_released")
  /\ UNCHANGED <<lcdVars, log, stageVars, call, ret, i, r, byte_counter,
                 current_accept_button, current_cancel_button, rem, staged>>
  /\ NoEnv

\* Lines 789 and 819: the call of waitForButtonPress.
WbsReleased ==
  /\ pc = "wbs_released"
  /\ EnterWaitPress("wbs_pressed")
  /\ UNCHANGED <<lcdVars, log, stageVars, call, ret, i, r, byte_counter,
                 current_accept_button, current_cancel_button, rem, staged>>
  /\ NoEnv

\* Lines 789-826 with the clearLcd of the two cancel paths (lines 791 and
\* 822) left out.
WbsPressedNoClearOnCancel ==
  /\ pc = "wbs_pressed"
  /\ IF waitForButtonPressResult
     THEN /\ UNCHANGED <<lcdVars, log>>
          /\ ret' = TRUE
          /\ pc' = "idle"
          /\ i' = 0 /\ byte_counter' = 0
     ELSE IF i < SEED_LENGTH
          THEN LET w == WritePasses(clearLcd(Lcd), call.arg.seed, i, 0) IN
                 /\ SetLcd(w[1])
                 /\ i' = w[2]
                 /\ byte_counter' = w[3]
                 /\ pc' = "wbs_test"
                 /\ UNCHANGED ret
          ELSE /\ SetLcd(clearLcd(Lcd))
               /\ ret' = FALSE
               /\ pc' = "idle"
               /\ i' = 0 /\ byte_counter' = 0
  /\ current_accept_button' = FALSE /\ current_cancel_button' = FALSE
  /\ UNCHANGED <<stageVars, after, call, r, rem, staged>>
  /\ NoEnvDisplay(TRUE)

\* Lines 789-796 and 819-826: cancel clears and fails; accept clears and
\* either writes the next page (byte_counter = 0) or succeeds.
WbsPressed ==
  /\ pc = "wbs_pressed"
  /\ IF waitForButtonPressResult
     THEN /\ SetLcd(clearLcd(Lcd))
          /\ ret' = TRUE
          /\ pc' = "idle"
          /\ i' = 0 /\ byte_counter' = 0
     ELSE IF i < SEED_LENGTH
          THEN LET w == WritePasses(clearLcd(Lcd), call.arg.seed, i, 0) IN
                 /\ SetLcd(w[1])
                 /\ i' = w[2]
                 /\ byte_counter' = w[3]
                 /\ pc' = "wbs_test"
                 /\ UNCHANGED ret
          ELSE /\ SetLcd(clearLcd(Lcd))
               /\ ret' = FALSE
               /\ pc' = "idle"
               /\ i' = 0 /\ byte_counter' = 0
  /\ current_accept_button' = FALSE /\ current_cancel_button' = FALSE
  /\ UNCHANGED <<stageVars, after, call, r, rem, staged>>
  /\ NoEnvDisplay(TRUE)

(* ======================================================================= *)
(* streamError (lines 831-836)                                             *)
(* ======================================================================= *)
\* clearLcd, gotoStartOfLine(0), writeString(str_stream_error); no wait.
streamError ==
  /\ pc = "idle"
  /\ call' = [op |-> "streamError", arg |-> 0]
  /\ SetLcd(writeString(gotoStartOfLine(clearLcd([Lcd EXCEPT !.log = <<>>]), 0),
                        str_stream_error, TRUE))
  /\ UNCHANGED <<stageVars, pc, after, ret, i, r, byte_counter, current_accept_button,
                 current_cancel_button, rem, staged>>
  /\ NoEnvDisplay(TRUE)

(* ---------------- backup specification ---------------- *)
\* Two seeds of SEED_LENGTH bytes.
Seeds ==
  {[k \in 1..SEED_LENGTH |-> (37 * k + 5) % UINT8],
   [k \in 1..SEED_LENGTH |-> (255 - 17 * k) % UINT8]}

Backup ==
  \E seed \in Seeds, is_encrypted \in BOOLEAN, destination_device \in {0, 1} :
    writeBackupSeed(seed, is_encrypted, destination_device)

NextBackup ==
  \/ Backup \/ streamError
  \/ WaitNoReadAccept \/ WaitNoReadCancel
  \/ WaitPressReadAccept \/ WaitPressReadCancel
  \/ WbsStatus \/ WbsStatusPressed \/ WbsFirstPage
  \/ WbsTest \/ WbsReleased \/ WbsPressed
  \/ Tick \/ PressOrRelease

SpecBackup == Init /\ [][NextBackup]_vars

(* ---------------- staging-lifetime specification ---------------- *)
\* Staging and reset interleaved with every operation that uses the display:
\* one output text and one fee text, the sign-transaction review, the stream
\* error message and writeBackupSeed.  The backup is asked for an unsupported
\* destination here; its screens and waits are the subject of SpecBackup.
LifetimeStageOutput == newOutputSeen(<<"1">>, <<"x">>)
LifetimeSeed == [k \in 1..SEED_LENGTH |-> (37 * k + 5) % UINT8]
LifetimeBackup == writeBackupSeed(LifetimeSeed, TRUE, 1)

NextLifetime ==
  \/ LifetimeStageOutput \/ SignStageFee \/ StageReset
  \/ AskSign \/ LifetimeBackup \/ streamError
  \/ WaitNoReadAccept \/ WaitNoReadCancel
  \/ WaitPressReadAccept \/ WaitPressReadCancel
  \/ UdSignLoop \/ UdSignOutput \/ UdSignPressed
  \/ UdFee \/ UdFeeScreen \/ UdFeePressed
  \/ UdEnd
  \/ Tick \/ PressOrRelease

SpecLifetime == Init /\ [][NextLifetime]_vars

(* ---------------- checkpoint specification ---------------- *)
\* Every workflow that waits for a decision, one after another: the
\* sign-transaction review of up to MAX_OUTPUTS staged outputs and a fee, and
\* the backup of one seed to the display.
CheckpointBackup == writeBackupSeed(LifetimeSeed, TRUE, 0)

NextCheckpoint ==
  \/ LifetimeStageOutput \/ SignStageFee
  \/ AskSign \/ CheckpointBackup
  \/ WaitNoReadAccept \/ WaitNoReadCancel
  \/ WaitPressReadAccept \/ WaitPressReadCancel
  \/ UdSignLoop \/ UdSignOutput \/ UdSignPressed
  \/ UdFee \/ UdFeeScreen \/ UdFeePressed
  \/ UdEnd
  \/ WbsStatus \/ WbsStatusPressed \/ WbsFirstPage
  \/ WbsTest \/ WbsReleased \/ WbsPressed
  \/ Tick \/ PressOrRelease

SpecCheckpoint == Init /\ [][NextCheckpoint]_vars

(* ---------------- confirmation specification ---------------- *)
\* Every kind of confirmation the file offers: userDenied for a tag with a
\* prompt wider than the display, for a tag no branch names and for the
\* review of staged outputs and fee, and the backup of one seed to the display.
ConfirmPrompt ==
  \E command \in {"ASKUSER_NUKE_WALLET", "ASKUSER_OTHER_A"} : userDenied(command)

NextConfirm ==
  \/ LifetimeStageOutput \/ SignStageFee
  \/ ConfirmPrompt \/ AskSign \/ CheckpointBackup
  \/ WaitNoReadAccept \/ WaitNoReadCancel
  \/ WaitPressReadAccept \/ WaitPressReadCancel
  \/ UdPrompt \/ UdPressed
  \/ UdSignLoop \/ UdSignOutput \/ UdSignPressed
  \/ UdFee \/ UdFeeScreen \/ UdFeePressed
  \/ UdEnd
  \/ WbsStatus \/ WbsStatusPressed \/ WbsFirstPage
  \/ WbsTest \/ WbsReleased \/ WbsPressed
  \/ Tick \/ PressOrRelease

SpecConfirm == Init /\ [][NextConfirm]_vars

(* ---------------- line specification ---------------- *)
\* The three display functions called in any order with strings that take the
\* cursor up to and past the capacity of a line, with ticks in between.
LineStrings == {str_fee_part1, str_sign_part1, str_unknown_line0}
LineTexts == {<<"1">>, <<"a", "b", "c">>}

\* restart: the operation stores to scroll_counter, so the count of ticks
\* explored since then starts again.
LineCall(op, arg, d, restart) ==
  /\ pc = "idle"
  /\ call' = [op |-> op, arg |-> arg]
  /\ SetLcd(d)
  /\ UNCHANGED <<stageVars, pc, after, ret, i, r, byte_counter, current_accept_button,
                 current_cancel_button, rem, staged>>
  /\ NoEnvDisplay(restart)

LineClear == LineCall("clearLcd", 0, clearLcd([Lcd EXCEPT !.log = <<>>]), TRUE)
LineGoto ==
  \E line \in {0, 1} :
    LineCall("gotoStartOfLine", line,
             gotoStartOfLine([Lcd EXCEPT !.log = <<>>], line), FALSE)
LineWritePgm ==
  \E str \in LineStrings :
    LineCall("writeString", str.len,
             writeString([Lcd EXCEPT !.log = <<>>], str, TRUE), TRUE)
LineWriteRam ==
  \E str \in LineTexts :
    LineCall("writeString", Len(str),
             writeString([Lcd EXCEPT !.log = <<>>], str, FALSE), TRUE)

NextLine == LineClear \/ LineGoto \/ LineWritePgm \/ LineWriteRam \/ Tick

SpecLine == Init /\ [][NextLine]_vars

(* ---------------- wait specification ---------------- *)
\* waitForButtonPress on its own, against the interrupt and the user's
\* fingers, with no bound on the number of ticks.
CallWaitForButtonPress ==
  /\ pc = "idle"
  /\ call' = [op |-> "waitForButtonPress", arg |-> 0]
  /\ EnterWaitPress("idle")
  /\ current_accept_button' = FALSE /\ current_cancel_button' = FALSE
  /\ log' = <<>>
  /\ UNCHANGED <<lcdVars, stageVars, ret, i, r, byte_counter, rem, staged>>
  /\ NoEnv

\* A tick of the interrupt, not counted.
TimerTick ==
  /\ TIMER0_COMPA_vect
  /\ UNCHANGED obsVars

NextWait ==
  \/ CallWaitForButtonPress
  \/ WaitPressReadAccept \/ WaitPressReadCancel
  \/ TimerTick \/ PressOrRelease

\* The timer keeps firing and the foreground keeps executing its loop.
SpecWait ==
  /\ Init /\ [][NextWait]_vars
  /\ WF_vars(TimerTick)
  /\ WF_vars(WaitPressReadAccept)
  /\ WF_vars(WaitPressReadCancel)

(* ======================================================================= *)
(* Display driver, statement level: the foreground's stores to the         *)
(* variables the interrupt reads, one step each, interleaved with ticks    *)
(* ======================================================================= *)
LoByte(v) == v % UINT8
HiByte(v) == v \div UINT8

\* scroll_counter is 16 bits wide on an 8-bit machine: a foreground store
\* writes its two bytes separately (interrupts stay enabled), in an order the
\* compiler chooses.
WithLoByte(old, v) == HiByte(old) * UINT8 + LoByte(v)
WithHiByte(old, v) == HiByte(v) * UINT8 + LoByte(old)

\* What a statement-level display step leaves alone, the count of ticks apart.
LcdFrameTimed ==
  UNCHANGED <<buttonVars, stageVars, pinVars, after, call, ret, i, r, byte_counter,
              current_accept_button, current_cancel_button, log,
              toggles, accept_hist, cancel_hist, accept_age, cancel_age, staged>>

\* What a statement-level display step leaves alone.
LcdFrame == LcdFrameTimed /\ UNCHANGED ticks

\* Lines 316-317 of clearLcd: current_column = 0 (foreground only) and
\* max_line_size = 0.
ClearLcdMaxLineSize ==
  /\ pc = "idle"
  /\ current_column' = 0
  /\ max_line_size' = 0
  /\ pc' = "cl_scroll_pos"
  /\ UNCHANGED <<scroll_pos, scroll_to_left, scroll_counter, rs_pin, rem>>
  /\ LcdFrame

\* Line 318.
ClearLcdScrollPos ==
  /\ pc = "cl_scroll_pos"
  /\ scroll_pos' = 0
  /\ pc' = "cl_scroll_to_left"
  /\ UNCHANGED <<current_column, max_line_size, scroll_to_left, scroll_counter, rs_pin, rem>>
  /\ LcdFrame

\* Line 319.
ClearLcdScrollToLeft ==
  /\ pc = "cl_scroll_to_left"
  /\ scroll_to_left' = FALSE
  /\ pc' = "cl_counter"
  /\ UNCHANGED <<current_column, max_line_size, scroll_pos, scroll_counter, rs_pin, rem>>
  /\ LcdFrame

\* The value lines 320 and 422 store into scroll_counter.
StoredCounter ==
  IF pc \in {"cl_counter", "cl_counter_lo", "cl_counter_hi"}
  THEN SCROLL_SPEED ELSE SCROLL_PAUSE

\* Lines 320 and 422: the first byte of the store.
StoreCounterFirstByte ==
  /\ pc \in {"cl_counter", "ws_counter"}
  /\ \/ /\ scroll_counter' = WithLoByte(scroll_counter, StoredCounter)
        /\ pc' = IF pc = "cl_counter" THEN "cl_counter_hi" ELSE "ws_counter_hi"
     \/ /\ scroll_counter' = WithHiByte(scroll_counter, StoredCounter)
        /\ pc' = IF pc = "cl_counter" THEN "cl_counter_lo" ELSE "ws_counter_lo"
  /\ UNCHANGED <<current_column, max_line_size, scroll_pos, scroll_to_left, rs_pin, rem>>
  /\ LcdFrame

\* The second byte of the store, with writeString also starting the scroll
\* state afresh before it returns.
StoreCounterSecondByteFresh ==
  /\ pc \in {"cl_counter_lo", "cl_counter_hi", "ws_counter_lo", "ws_counter_hi"}
  /\ scroll_counter' = IF pc \in {"cl_counter_lo", "ws_counter_lo"}
                       THEN WithLoByte(scroll_counter, StoredCounter)
                       ELSE WithHiByte(scroll_counter, StoredCounter)
  /\ pc' = IF pc \in {"cl_counter_lo", "cl_counter_hi"} THEN "cl_command" ELSE "idle"
  /\ IF pc \in {"ws_counter_lo", "ws_counter_hi"}
     THEN scroll_pos' = 0 /\ scroll_to_left' = FALSE
     ELSE UNCHANGED <<scroll_pos, scroll_to_left>>
  /\ UNCHANGED <<current_column, max_line_size, rs_pin, rem>>
  /\ ticks' = IF pc \in {"ws_counter_lo", "ws_counter_hi"} THEN 0 ELSE ticks
  /\ LcdFrameTimed

\* Lines 320 and 422: the second byte; writeString returns after it, and the
\* count of ticks since the last display operation starts again.
StoreCounterSecondByte ==
  /\ pc \in {"cl_counter_lo", "cl_counter_hi", "ws_counter_lo", "ws_counter_hi"}
  /\ scroll_counter' = IF pc \in {"cl_counter_lo", "ws_counter_lo"}
                       THEN WithLoByte(scroll_counter, StoredCounter)
                       ELSE WithHiByte(scroll_counter, StoredCounter)
  /\ pc' = IF pc \in {"cl_counter_lo", "cl_counter_hi"} THEN "cl_command" ELSE "idle"
  /\ UNCHANGED <<current_column, max_line_size, scroll_pos, scroll_to_left, rs_pin, rem>>
  /\ ticks' = IF pc \in {"ws_counter_lo", "ws_counter_hi"} THEN 0 ELSE ticks
  /\ LcdFrameTimed

\* Lines 321-323: register select low, the clear command, return.
ClearLcdCommand ==
  /\ pc = "cl_command"
  /\ rs_pin' = FALSE
  /\ pc' = "idle"
  /\ UNCHANGED <<current_column, max_line_size, scroll_pos, scroll_to_left, scroll_counter, rem>>
  /\ LcdFrame

\* Lines 371-380: register select low, the cursor command, current_column = 0.
GotoStartOfLineStep ==
  /\ pc = "idle"
  /\ rs_pin' = FALSE
  /\ current_column' = 0
  /\ UNCHANGED <<pc, max_line_size, scroll_pos, scroll_to_left, scroll_counter, rem>>
  /\ LcdFrame

\* Lengths of the strings written in the display specification.
LcdStringLengths == {9, 17}

\* Lines 394-403 of writeString for a string of len characters: register
\* select high and the first character read.
WriteStringBegin ==
  /\ pc = "idle"
  /\ \E len \in LcdStringLengths :
       /\ current_column + len <= MaxLineLen
       /\ rem' = len
  /\ rs_pin' = TRUE
  /\ pc' = "ws_loop"
  /\ UNCHANGED <<current_column, max_line_size, scroll_pos, scroll_to_left, scroll_counter>>
  /\ LcdFrame

\* Lines 404-421: the loop test and one pass of the loop.
WriteStringLoop ==
  /\ pc = "ws_loop"
  /\ IF rem # 0 /\ current_column < LINE_CAPACITY
     THEN /\ current_column' = (current_column + 1) % UINT8
          /\ max_line_size' = IF current_column' > max_line_size
                              THEN current_column' ELSE max_line_size
          /\ rem' = rem - 1
          /\ UNCHANGED pc
     ELSE /\ pc' = "ws_counter"
          /\ rem' = 0
          /\ UNCHANGED <<current_column, max_line_size>>
  /\ UNCHANGED <<scroll_pos, scroll_to_left, scroll_counter, rs_pin>>
  /\ LcdFrame

\* A tick of the interrupt between two foreground statements.
LcdTick == TIMER0_COMPA_vect /\ UNCHANGED obsVars

NextLcd ==
  \/ ClearLcdMaxLineSize \/ ClearLcdScrollPos \/ ClearLcdScrollToLeft
  \/ StoreCounterFirstByte \/ StoreCounterSecondByte \/ ClearLcdCommand
  \/ GotoStartOfLineStep
  \/ WriteStringBegin \/ WriteStringLoop
  \/ LcdTick

SpecLcd == Init /\ [][NextLcd]_vars

(* ---------------- pause specification ---------------- *)
\* The statements of writeString, called for one string after another on the
\* same line, against ticks that are counted: ticks is the number of ticks
\* since writeString last returned, up to SCROLL_PAUSE.
PauseTick ==
  /\ TIMER0_COMPA_vect
  /\ ticks' = IF ticks < SCROLL_PAUSE THEN ticks + 1 ELSE ticks
  /\ UNCHANGED <<toggles, accept_hist, cancel_hist, accept_age, cancel_age, staged>>

NextPause ==
  \/ WriteStringBegin \/ WriteStringLoop
  \/ StoreCounterFirstByte \/ StoreCounterSecondByte
  \/ PauseTick

SpecPause == Init /\ [][NextPause]_vars

(* ---------------- claims about the staging store ---------------- *)

\* What a buffer of n bytes holds of text: at most n - 1 characters.
Kept(text, n) ==
  IF Len(text) > n - 1 THEN SubSeq(text, 1, n - 1) ELSE text

\* The staged records are the inputs recorded in staged, in order.
StagedInOrder ==
  /\ list_index = Len(staged)
  /\ \A k \in 0..(list_index - 1) :
       /\ CString(list_amount[k]) = Kept(staged[k + 1][1], TEXT_AMOUNT_LENGTH)
       /\ CString(list_address[k]) = Kept(staged[k + 1][2], TEXT_ADDRESS_LENGTH)

\* C6: the staged count never exceeds MAX_OUTPUTS; newOutputSeen at capacity
\* returns true and changes neither the count, the records nor the fee, so
\* the records remain the first MAX_OUTPUTS inputs in order; below capacity
\* it returns false and appends exactly one record (the others unchanged).
C6_StagingCapacity ==
  [][ /\ list_index' <= MAX_OUTPUTS
      /\ StagedInOrder'
      /\ (call'.op = "newOutputSeen" /\ list_index = MAX_OUTPUTS
            => ret' = TRUE /\ UNCHANGED stageVars)
      /\ (call'.op = "newOutputSeen" /\ list_index < MAX_OUTPUTS
            => /\ ret' = FALSE
               /\ list_index' = list_index + 1
               /\ CString(list_amount'[list_index]) = Kept(call'.arg[1], TEXT_AMOUNT_LENGTH)
               /\ CString(list_address'[list_index]) = Kept(call'.arg[2], TEXT_ADDRESS_LENGTH)
               /\ \A k \in 0..(MAX_OUTPUTS - 1) \ {list_index} :
                    list_amount'[k] = list_amount[k] /\ list_address'[k] = list_address[k]
               /\ UNCHANGED <<transaction_fee_set, transaction_fee_amount>>) ]_vars

\* C6 witness: a call made at capacity has been refused with the fee set and
\* both records holding truncated texts.
C6_Witness ==
  /\ call.op = "newOutputSeen" /\ ret = TRUE
  /\ list_index = MAX_OUTPUTS /\ transaction_fee_set
  /\ Len(call.arg[1]) >= TEXT_AMOUNT_LENGTH
  /\ Len(staged[1][1]) >= TEXT_AMOUNT_LENGTH

(* ---------------- claims about the debounce ---------------- *)

\* The sampled level disagrees with the debounced state: the mismatch test of
\* lines 282 and 297 (a high pin is a released button).
Disagrees(level, button) == (button /\ level) \/ (~button /\ ~level)

\* All of the last DEBOUNCE_COUNT samples in hist disagree with state button.
AllDisagree(hist, button) ==
  /\ Len(hist) = DEBOUNCE_COUNT
  /\ \A k \in 1..DEBOUNCE_COUNT : Disagrees(hist[k], button)

\* C7: for each button, the debounced state flips on a tick only if that
\* tick's sample and the DEBOUNCE_COUNT - 1 samples before it all disagreed
\* with the debounced state held before the flip; a tick whose sample agrees
\* with the debounced state sets the counter to 0 and flips nothing.
C7_FlipOnlyAfterNDisagreeing ==
  [][ /\ (accept_button' # accept_button => AllDisagree(accept_hist', accept_button))
      /\ (cancel_button' # cancel_button => AllDisagree(cancel_hist', cancel_button))
      /\ (TickSampled /\ ~Disagrees(accept_pin, accept_button)
            => accept_debounce' = 0 /\ accept_button' = accept_button)
      /\ (TickSampled /\ ~Disagrees(cancel_pin, cancel_button)
            => cancel_debounce' = 0 /\ cancel_button' = cancel_button) ]_vars

\* C7 witness: the accept button has just flipped to pressed after its pin
\* bounced (pressed, released, pressed again) while cancel stayed released.
C7_Witness ==
  /\ accept_button /\ accept_debounce = DEBOUNCE_COUNT
  /\ toggles = 3 /\ cancel_pin /\ ~cancel_button

\* C8: each debounce counter stays within 0..DEBOUNCE_COUNT, and right after a
\* tick that flips a debounced state that button's counter is 0.
C8_CounterBoundedAndResetOnFlip ==
  [][ /\ accept_debounce' \in 0..DEBOUNCE_COUNT
      /\ cancel_debounce' \in 0..DEBOUNCE_COUNT
      /\ (accept_button' # accept_button => accept_debounce' = 0)
      /\ (cancel_button' # cancel_button => cancel_debounce' = 0) ]_vars

(* ---------------- claims about userDenied ---------------- *)
IsPress(e) == e[1] = "press"

\* The decisions waitForButtonPress returned during the call, in order; each
\* is <<"press", accept flag as read, cancel flag as read>>.
Presses == SelectSeq(log, IsPress)

\* The press was resolved in favour of accept (lines 498-505).
Approved(p) == p[2] = TRUE

\* How many times the program-memory string id was written during the call.
NumShown(id) ==
  Cardinality({j \in DOMAIN log : log[j][1] = "pgm" /\ log[j][2] = id})

Returned(commands) ==
  pc = "idle" /\ call.op = "userDenied" /\ call.arg \in commands

\* The operations of a fixed two-line prompt resolved by press p.
PromptLog(line0, line1, p) ==
  << <<"clear">>, <<"released">>,
     <<"goto", 0>>, <<"pgm", line0.id, line0.len>>,
     <<"goto", 1>>, <<"pgm", line1.id, line1.len>>,
     p, <<"clear">> >>

\* The operations of the screen of the k-th staged output resolved by press p.
OutputScreenLog(k, p) ==
  LET amount == Kept(staged[k][1], TEXT_AMOUNT_LENGTH)
      address == Kept(staged[k][2], TEXT_ADDRESS_LENGTH)
  IN << <<"clear">>, <<"released">>,
        <<"goto", 0>>, <<"pgm", "str_sign_part0", 8>>,
        <<"ram", amount, Len(amount)>>, <<"pgm", "str_sign_part1", 7>>,
        <<"goto", 1>>, <<"ram", address, Len(address)>>,
        p >>

\* The operations of the fee screen resolved by press p.
FeeScreenLog(p) ==
  LET amount == CString(transaction_fee_amount)
  IN << <<"clear">>, <<"released">>,
        <<"goto", 0>>, <<"pgm", "str_fee_part0", 16>>,
        <<"goto", 1>>, <<"ram", amount, Len(amount)>>, <<"pgm", "str_fee_part1", 4>>,
        p >>

\* The screens of the first n staged outputs, each resolved by its press.
RECURSIVE OutputsLog(_)
OutputsLog(n) ==
  IF n = 0 THEN <<>> ELSE OutputsLog(n - 1) \o OutputScreenLog(n, Presses[n])

NumOutputScreens == NumShown("str_sign_part0")
NumFeeScreens == NumShown("str_fee_part0")

AllOutputsApproved ==
  /\ NumOutputScreens = list_index
  /\ Len(Presses) >= list_index
  /\ \A k \in 1..list_index : Approved(Presses[k])

\* C1: a sign-transaction review shows the staged outputs one screen each in
\* staging order; it returns approved only if every staged output's screen
\* was resolved by accept; at the first output resolved by cancel it stops,
\* rendering no later output screen and no fee screen, and returns denied.
C1_SignReviewStopsAtFirstDenial ==
  Returned({ASKUSER_SIGN_TRANSACTION}) =>
    LET n == NumOutputScreens IN
    /\ n <= list_index
    /\ list_index = Len(staged)
    /\ Len(Presses) >= n
    /\ Len(log) >= 1 + 9 * n
    /\ SubSeq(log, 1, 1 + 9 * n) = << <<"clear">> >> \o OutputsLog(n)
    /\ \A k \in 1..(n - 1) : Approved(Presses[k])
    /\ (n < list_index => n >= 1 /\ ~Approved(Presses[n]))
    /\ (n >= 1 /\ ~Approved(Presses[n]) =>
          /\ log = << <<"clear">> >> \o OutputsLog(n) \o << <<"clear">> >>
          /\ NumFeeScreens = 0
          /\ ret = TRUE)
    /\ (ret = FALSE => AllOutputsApproved)

\* Two outputs staged, the first denied: one screen only, result denied.
C1_Witness ==
  /\ Returned({ASKUSER_SIGN_TRANSACTION})
  /\ list_index = 2
  /\ NumOutputScreens = 1
  /\ Presses = << <<"press", FALSE, TRUE>> >>
  /\ ret = TRUE

\* C2: with at least one staged output the fee screen is rendered exactly when
\* every staged output was approved and the fee flag is set; it comes after
\* all output screens and its press is the result; when the fee flag is not
\* set the result is the press of the last output screen.
C2_FeeScreenAfterUnanimousApproval ==
  Returned({ASKUSER_SIGN_TRANSACTION}) /\ list_index >= 1 =>
    /\ NumFeeScreens \in {0, 1}
    /\ (NumFeeScreens = 1 <=> (AllOutputsApproved /\ transaction_fee_set))
    /\ (NumFeeScreens = 1 =>
          /\ Len(Presses) = list_index + 1
          /\ log = << <<"clear">> >> \o OutputsLog(list_index)
                     \o FeeScreenLog(Presses[list_index + 1]) \o << <<"clear">> >>
          /\ ret = ~Approved(Presses[list_index + 1]))
    /\ (~transaction_fee_set =>
          /\ Len(Presses) = NumOutputScreens
          /\ NumOutputScreens >= 1
          /\ ret = ~Approved(Presses[NumOutputScreens]))

\* Both outputs approved, then the fee denied: the result is denied.
C2_Witness ==
  /\ Returned({ASKUSER_SIGN_TRANSACTION})
  /\ list_index = 2
  /\ NumFeeScreens = 1
  /\ Len(Presses) = 3
  /\ Approved(Presses[1]) /\ Approved(Presses[2]) /\ ~Approved(Presses[3])
  /\ ret = TRUE

\* C3 as stated: with zero staged outputs the loop is skipped and the result
\* is denied unless the fee flag is set, in which case the fee screen is
\* rendered and its press is the result.
C3_ZeroOutputsFeeOverrides ==
  Returned({ASKUSER_SIGN_TRANSACTION}) /\ list_index = 0 =>
    /\ NumOutputScreens = 0
    /\ IF transaction_fee_set
       THEN /\ NumFeeScreens = 1
            /\ Len(Presses) = 1
            /\ ret = ~Approved(Presses[1])
       ELSE NumFeeScreens = 0 /\ ret = TRUE

\* C3 (amended): with zero staged outputs nothing is rendered and no button is
\* waited for, whether or not the fee flag is set; the display is cleared
\* twice and the result is denied.
C3_ZeroOutputsAlwaysDenied ==
  Returned({ASKUSER_SIGN_TRANSACTION}) /\ list_index = 0 =>
    /\ log = << <<"clear">>, <<"clear">> >>
    /\ ret = TRUE

\* Zero outputs with the fee set: denied without a fee screen.
C3_Witness ==
  /\ Returned({ASKUSER_SIGN_TRANSACTION})
  /\ list_index = 0
  /\ transaction_fee_set
  /\ NumFeeScreens = 0
  /\ ret = TRUE

\* C4: for a tag outside the nine recognized ones userDenied renders the
\* unknown-command notice, waits for a press and returns denied whichever
\* button produced the press.
C4_UnknownCommandDenied ==
  Returned(OtherCommands) =>
    /\ Len(Presses) = 1
    /\ log = PromptLog(str_unknown_line0, str_unknown_line1, Presses[1])
    /\ ret = TRUE

\* An unknown tag dismissed with accept alone: still denied.
C4_Witness ==
  /\ Returned(OtherCommands)
  /\ Presses = << <<"press", TRUE, FALSE>> >>
  /\ ret = TRUE

\* C5: for each single-screen tag the steps are, in order: clear, wait for
\* both buttons released, line 0, line 1, wait for a press, clear, return; the
\* result is approved when the accept flag was read true and denied when only
\* the cancel flag was read true.
C5_SingleScreenOrderAndResult ==
  Returned(SingleScreenCommands) =>
    /\ Len(Presses) = 1
    /\ log = PromptLog(PromptLines(call.arg)[1], PromptLines(call.arg)[2], Presses[1])
    /\ (Presses[1][2] => ret = FALSE)
    /\ (~Presses[1][2] /\ Presses[1][3] => ret = TRUE)

\* A single-screen prompt resolved by cancel alone: denied.
C5_Witness ==
  /\ Returned({"ASKUSER_GET_MASTER_KEY"})
  /\ Presses = << <<"press", FALSE, TRUE>> >>
  /\ ret = TRUE

(* ---------------- claims about scrolling ---------------- *)
\* C9: under every interleaving of ticks with the statements of clearLcd,
\* gotoStartOfLine and writeString, whenever max_line_size exceeds the
\* visible width the scroll position lies in [0, max_line_size - 16], and a
\* tick that runs while max_line_size <= 16 changes neither the scroll
\* position nor the direction.
C9_ScrollPositionBounded ==
  /\ [](max_line_size > NUM_COLUMNS =>
          scroll_pos \in 0..(max_line_size - NUM_COLUMNS))
  /\ [][LcdTick /\ max_line_size <= NUM_COLUMNS =>
          scroll_pos' = scroll_pos /\ scroll_to_left' = scroll_to_left]_vars

\* The text has scrolled to its right end and the direction has turned.
C9_Witness ==
  /\ max_line_size > NUM_COLUMNS
  /\ scroll_pos = max_line_size - NUM_COLUMNS
  /\ scroll_pos > 0
  /\ scroll_to_left

(* ---------------- claims about writeBackupSeed ---------------- *)
BackupReturned ==
  pc = "idle" /\ call.op = "writeBackupSeed" /\ call.arg.destination_device = 0

\* ceil(SEED_LENGTH / 12)
NumPages == (SEED_LENGTH + PAGE_BYTES - 1) \div PAGE_BYTES

\* Number of bytes on page k (1-based): 12, or the remainder on the last.
PageSize(k) ==
  IF k * PAGE_BYTES <= SEED_LENGTH THEN PAGE_BYTES
  ELSE SEED_LENGTH - (k - 1) * PAGE_BYTES

\* The operations that write bytes from..to (1-based) of the seed, the first
\* of them at screen position counter.
RECURSIVE BytesLog(_, _, _)
BytesLog(from, to, counter) ==
  IF from > to THEN <<>>
  ELSE LET text == IF counter % 2 = 0
                   THEN <<" ">> \o HexByte(call.arg.seed[from])
                   ELSE HexByte(call.arg.seed[from])
           cursor == IF counter = 0 THEN << <<"goto", 0>> >>
                     ELSE IF counter = 6 THEN << <<"goto", 1>> >>
                     ELSE <<>>
       IN cursor \o << <<"ram", text, Len(text)>> >> \o BytesLog(from + 1, to, counter + 1)

\* Page k: its bytes, the wait for release and the confirming press.
PageLog(k) ==
  BytesLog((k - 1) * PAGE_BYTES + 1, (k - 1) * PAGE_BYTES + PageSize(k), 0)
    \o << <<"released">>, Presses[k + 1] >>

\* Pages 1..n, each later page after the clear that follows an accepted page.
RECURSIVE PagesLog(_)
PagesLog(n) ==
  IF n = 1 THEN PageLog(1)
  ELSE PagesLog(n - 1) \o << <<"clear">> >> \o PageLog(n)

\* The status screen resolved by the first press.
StatusLog ==
  LET line1 == IF call.arg.is_encrypted THEN str_seed_encrypted_line1
               ELSE str_seed_not_encrypted_line1
  IN << <<"clear">>, <<"released">>,
        <<"goto", 0>>, <<"pgm", "str_seed_encrypted_or_not_line0", 9>>,
        <<"goto", 1>>, <<"pgm", line1.id, line1.len>>,
        Presses[1] >>

\* C10: with destination 0, once the status screen is accepted, the seed is
\* rendered as ceil(L/12) pages in byte order, 12 bytes per full page and the
\* remainder on the last; every page, the last included, takes exactly one
\* confirming press; the call succeeds only if all of them were accepts, and
\* a cancel at page k renders no later page and fails.
C10_SeedPages ==
  BackupReturned /\ Len(Presses) >= 1 /\ Approved(Presses[1]) =>
    LET n == Len(Presses) - 1 IN
    /\ n \in 1..NumPages
    /\ \A k \in 1..(n - 1) : Approved(Presses[k + 1])
    /\ (n < NumPages => ~Approved(Presses[n + 1]))
    /\ log = StatusLog \o << <<"released">> >> \o PagesLog(n) \o << <<"clear">> >>
    /\ ret = ~Approved(Presses[n + 1])

\* Every page of a seed of more than one page was accepted: success.
C10_Witness ==
  /\ BackupReturned
  /\ NumPages >= 2
  /\ Len(Presses) = NumPages + 1
  /\ \A k \in 1..(NumPages + 1) : Approved(Presses[k])
  /\ ret = FALSE

\* C11: writeBackupSeed with a destination other than 0 returns true at once:
\* no display command is issued, no button is waited for, and the cursor and
\* scroll state are left as they were.
C11_OtherDestinationFailsAtOnce ==
  [][\A seed \in Seeds, is_encrypted \in BOOLEAN, destination_device \in {1} :
       writeBackupSeed(seed, is_encrypted, destination_device) =>
         /\ ret' = TRUE
         /\ pc' = "idle"
         /\ log' = <<>>
         /\ UNCHANGED <<current_column, max_line_size, scroll_pos, scroll_to_left,
                        scroll_counter, rs_pin>>]_vars

\* The call returned failure for destination 1 with the stream-error text
\* still on the display.
C11_Witness ==
  /\ pc = "idle"
  /\ call.op = "writeBackupSeed"
  /\ call.arg.destination_device = 1
  /\ ret = TRUE
  /\ current_column = 12 /\ max_line_size = 12

\* The positions in the log at which bytes of the seed were written.
SeedWrites == {j \in DOMAIN log : log[j][1] = "ram"}

\* Position j of the log holds the first press of the call, an accept, and
\* the status screen was written before it.
StatusAcceptedAt(j) ==
  /\ IsPress(log[j]) /\ Approved(log[j])
  /\ \A m \in 1..(j - 1) : ~IsPress(log[m])
  /\ \E m \in 1..(j - 1) : log[m] = <<"pgm", "str_seed_encrypted_or_not_line0", 9>>

\* C12: with destination 0 no byte of the seed is written before the status
\* screen has been resolved by an accept press; when it is resolved by a
\* cancel press the call returns failure with no seed byte written.
C12_NoSeedBeforeStatusAccepted ==
  call.op = "writeBackupSeed" /\ call.arg.destination_device = 0 =>
    /\ \A j \in SeedWrites : \E k \in 1..(j - 1) : StatusAcceptedAt(k)
    /\ (Len(Presses) >= 1 /\ ~Approved(Presses[1]) =>
          /\ SeedWrites = {}
          /\ pc \in {"wbs_status_pressed", "idle"}
          /\ (pc = "idle" => ret = TRUE))

\* The status screen was accepted and the first page has been written.
C12_Witness ==
  /\ call.op = "writeBackupSeed" /\ call.arg.destination_device = 0
  /\ pc = "wbs_test"
  /\ Len(Presses) = 1 /\ Approved(Presses[1])
  /\ SeedWrites # {}

(* ---------------- claims about the busy-wait primitives ---------------- *)
\* C13 as stated: waitForButtonPress returns only from a pair of copies in
\* which exactly one of the two flags is true.
C13_ExactlyOneFlagInSnapshot ==
  pc = "ud_pressed" => current_accept_button # current_cancel_button

\* C13 (amended): waitForButtonPress polls again only when both copies read
\* false and returns from the first pair of copies in which at least one is
\* true; the decision is taken on those copies alone, and the accept copy wins:
\* the result is approved whenever it is true, also when the cancel copy is
\* true as well.
C13_ReturnsOnAnyTrueCopy ==
  /\ [](pc = "ud_pressed" =>
          /\ current_accept_button \/ current_cancel_button
          /\ log[Len(log)] = <<"press", current_accept_button, current_cancel_button>>)
  /\ [][pc = "wp_cancel" /\ pc' = "wp_accept" =>
          ~current_accept_button /\ ~cancel_button]_vars
  /\ [][pc = "ud_pressed" /\ pc' = "ud_end" /\ call.arg \in SingleScreenCommands =>
          r' = ~current_accept_button]_vars

\* waitForButtonPress has returned with both copies true.
C13_Witness ==
  /\ pc = "ud_pressed"
  /\ call.arg \in SingleScreenCommands
  /\ current_accept_button /\ current_cancel_button

(* ---------------- claims about the lifetime of the staged data ---------------- *)
\* The screen of the k-th record as the review reads it from the lists.
RecordScreenLog(k, p) ==
  LET amount == CString(list_amount[k - 1])
      address == CString(list_address[k - 1])
  IN << <<"clear">>, <<"released">>,
        <<"goto", 0>>, <<"pgm", "str_sign_part0", 8>>,
        <<"ram", amount, Len(amount)>>, <<"pgm", "str_sign_part1", 7>>,
        <<"goto", 1>>, <<"ram", address, Len(address)>>,
        p >>

RECURSIVE RecordsLog(_)
RecordsLog(n) ==
  IF n = 0 THEN <<>> ELSE RecordsLog(n - 1) \o RecordScreenLog(n, Presses[n])

StagingOps == {"newOutputSeen", "setTransactionFee", "clearOutputsSeen"}

\* C14: clearOutputsSeen leaves the count at 0 and the fee unset, from any
\* state; a step that lowers the count or unsets the fee is a clearOutputsSeen
\* step; the count, the records and the fee change only in a step of one of
\* the three staging operations, so userDenied, writeBackupSeed, streamError
\* and the tick leave them as they are; and what a sign-transaction review
\* shows is read from the count, the records and the fee alone, so a review
\* repeated without a reset shows the same outputs and fee.
C14_StagedDataLifetime ==
  /\ [](call.op = "clearOutputsSeen" => list_index = 0 /\ ~transaction_fee_set)
  /\ [][(list_index' < list_index \/ (transaction_fee_set /\ ~transaction_fee_set'))
          => pc = "idle" /\ call'.op = "clearOutputsSeen"]_vars
  /\ [][stageVars' # stageVars
          => /\ pc = "idle" /\ pc' = "idle"
             /\ call'.op \in StagingOps
             /\ UNCHANGED <<lcdVars, buttonVars, pinVars, ticks>>]_vars
  /\ [](Returned({ASKUSER_SIGN_TRANSACTION}) =>
          LET n == NumOutputScreens IN
          /\ n <= list_index
          /\ Len(Presses) >= n
          /\ SubSeq(log, 1, 1 + 9 * n) = << <<"clear">> >> \o RecordsLog(n)
          /\ (ret = FALSE => n = list_index)
          /\ (NumFeeScreens = 1 =>
                /\ transaction_fee_set
                /\ log = << <<"clear">> >> \o RecordsLog(list_index)
                           \o FeeScreenLog(Presses[list_index + 1]) \o << <<"clear">> >>))

\* A review of one output and the fee has returned approved after the list,
\* once two records long, was reset and staged again.
C14_Witness ==
  /\ Returned({ASKUSER_SIGN_TRANSACTION})
  /\ list_index = 1
  /\ CString(list_amount[1]) # <<>>
  /\ NumOutputScreens = 1 /\ NumFeeScreens = 1
  /\ ret = FALSE

(* ---------------- claims about the line bookkeeping ---------------- *)
Min(a, b) == IF a < b THEN a ELSE b
Max(a, b) == IF a > b THEN a ELSE b

\* C15: current_column and max_line_size never exceed the capacity of a line;
\* writeString of a string of n characters from column c emits
\* min(n, capacity - c) characters and drops the rest, leaves the cursor that
\* many columns further and max_line_size at the larger of its old value and
\* the new column; gotoStartOfLine sets current_column to 0 and leaves
\* max_line_size as it was; the tick changes neither.
C15_LineBookkeeping ==
  /\ [](current_column <= LINE_CAPACITY /\ max_line_size <= LINE_CAPACITY)
  /\ [][pc = "idle" /\ ticks' # ticks + 1 /\ call'.op = "writeString" =>
          LET n == call'.arg
              emitted == Min(n, LINE_CAPACITY - current_column)
          IN /\ log'[1][3] = emitted
             /\ current_column' = current_column + emitted
             /\ max_line_size' = Max(max_line_size, current_column')]_vars
  /\ [][pc = "idle" /\ ticks' # ticks + 1 /\ call'.op = "gotoStartOfLine" =>
          current_column' = 0 /\ max_line_size' = max_line_size]_vars
  /\ [][ticks' = ticks + 1 =>
          current_column' = current_column /\ max_line_size' = max_line_size]_vars

\* A write that reached the end of the line and dropped characters.
C15_Witness ==
  /\ call.op = "writeString"
  /\ current_column = LINE_CAPACITY /\ max_line_size = LINE_CAPACITY
  /\ log[1][3] < call.arg /\ log[1][3] > 0

(* ---------------- claims about waiting ---------------- *)
InWaitPress == pc \in {"wp_accept", "wp_cancel"}

\* C16: waitForButtonPress has no timeout.  The only step that leaves it is
\* the loop test with a flag read as true, so it does not return while both
\* flags stay false, however many ticks go by; and with the timer firing and
\* the loop executing, it does not stay in the wait for ever with the accept
\* flag true for ever, nor with the cancel flag true for ever.
C16_NoTimeoutAndReturnsOnFlag ==
  /\ [][InWaitPress /\ ~InWaitPress' =>
          /\ pc = "wp_cancel" /\ pc' = "idle"
          /\ current_accept_button \/ cancel_button]_vars
  /\ [][pc = "wp_accept" /\ pc' = "wp_cancel" =>
          current_accept_button' = accept_button]_vars
  /\ []<>~(InWaitPress /\ accept_button)
  /\ []<>~(InWaitPress /\ cancel_button)

\* Still waiting with both flags false and nothing read, a full scroll period
\* of ticks (SCROLL_SPEED - 1 or more) after the first tick.
C16_Witness ==
  /\ InWaitPress
  /\ ~accept_button /\ ~cancel_button
  /\ ~current_accept_button /\ ~current_cancel_button
  /\ scroll_counter = 1

(* ---------------- claims about the spacing of flips ---------------- *)
\* C17: a debounced state that has changed does not change again during the
\* next DEBOUNCE_COUNT - 1 ticks, whatever the samples: a tick changes it only
\* if at least DEBOUNCE_COUNT - 1 ticks have gone by since its last change.
C17_NoFlipWithinNMinus1Ticks ==
  [][ /\ (accept_button' # accept_button => accept_age >= DEBOUNCE_COUNT - 1)
      /\ (cancel_button' # cancel_button => cancel_age >= DEBOUNCE_COUNT - 1) ]_vars

\* The accept state has just changed back to released: its second change.
C17_Witness ==
  /\ ~accept_button /\ accept_age = 0
  /\ accept_debounce = DEBOUNCE_COUNT

\* C18 as stated: from every reachable state, also right after a flip,
\* DEBOUNCE_COUNT consecutive samples that disagree with the debounced state
\* change it no later than the last of them: a tick whose sample and the
\* DEBOUNCE_COUNT - 1 samples before it all disagree with the state held
\* before the tick changes that state.
C18_NDisagreeingSamplesFlip ==
  [][ /\ (AllDisagree(accept_hist', accept_button) => accept_button' # accept_button)
      /\ (AllDisagree(cancel_hist', cancel_button) => cancel_button' # cancel_button) ]_vars

(* ---------------- claims about the scroll state ---------------- *)
WriteStringPcs == {"ws_loop", "ws_counter", "ws_counter_lo", "ws_counter_hi"}

\* A foreground step of writeString (a tick leaves pc and rem alone).
WriteStringStep ==
  /\ pc \in WriteStringPcs \/ pc' \in WriteStringPcs
  /\ pc' # pc \/ rem' # rem

\* writeString returns.
WriteStringReturns == pc \in {"ws_counter_lo", "ws_counter_hi"} /\ pc' = "idle"

\* C19 as stated: the scroll state is fresh (position 0, direction right)
\* when clearLcd returns and when writeString returns, under any interleaving
\* with ticks.
C19_FreshAfterClearAndWrite ==
  [][(pc = "cl_command" /\ pc' = "idle") \/ WriteStringReturns
       => scroll_pos' = 0 /\ ~scroll_to_left']_vars

\* C19 (amended): the scroll state is fresh when clearLcd returns, under any
\* interleaving with ticks; no step of writeString changes the position or the
\* direction, so when writeString returns they are what the ticks since the
\* last clearLcd made them, and they are fresh whenever the widest line
\* written since then fits the display.
C19_FreshAfterClearOnly ==
  /\ [][pc = "cl_command" /\ pc' = "idle"
          => scroll_pos' = 0 /\ ~scroll_to_left' /\ max_line_size' = 0]_vars
  /\ [][WriteStringStep
          => scroll_pos' = scroll_pos /\ scroll_to_left' = scroll_to_left]_vars
  /\ [][WriteStringReturns /\ max_line_size' <= NUM_COLUMNS
          => scroll_pos' = 0 /\ ~scroll_to_left']_vars

\* writeString has just returned (register select still high, the pause just
\* stored) with the text scrolled by one column.
C19_Witness ==
  /\ pc = "idle" /\ rs_pin
  /\ scroll_counter = SCROLL_PAUSE
  /\ scroll_pos = 1

\* The position is at the end towards which the scroll is moving.
AtScrollBoundary ==
  \/ scroll_to_left /\ scroll_pos = 0
  \/ ~scroll_to_left /\ scroll_pos = max_line_size - NUM_COLUMNS

\* C20 as stated: once writeString has returned, none of the next
\* SCROLL_PAUSE - 1 ticks changes the scroll position (the first that may is
\* the SCROLL_PAUSE-th); a tick moves the position by one column at most and
\* leaves a whole scroll interval of SCROLL_SPEED ticks before the next move;
\* a tick that finds the position at a boundary turns the direction and
\* leaves the position unchanged.
C20_PauseThenStepwiseScroll ==
  /\ [][pc = "idle" /\ ticks' = ticks + 1 /\ ticks' <= SCROLL_PAUSE - 1
          => scroll_pos' = scroll_pos]_vars
  /\ [][scroll_pos' # scroll_pos
          => /\ scroll_pos' \in {scroll_pos - 1, scroll_pos + 1}
             /\ scroll_counter' = SCROLL_SPEED]_vars
  /\ [][PauseTick /\ scroll_counter = 1 /\ max_line_size > NUM_COLUMNS /\ AtScrollBoundary
          => scroll_pos' = scroll_pos /\ scroll_to_left' = ~scroll_to_left]_vars

(* ---------------- claims about checkpoints ---------------- *)
\* waitForNoButtonPress returned after the decision before the j-th operation
\* of the call, if there was one, and before the j-th operation.
ReleasedBefore(j) ==
  \E k \in 1..(j - 1) :
    /\ log[k] = <<"released">>
    /\ \A m \in (k + 1)..(j - 1) : ~IsPress(log[m])

\* C21: every decision waitForButtonPress returns, in a review or a backup,
\* comes after a return of waitForNoButtonPress that is later than the
\* decision before it (and than the start of the call); waitForNoButtonPress
\* goes past its first operand only on reading the accept flag false and
\* returns only on reading the cancel flag false, so an accept flag that
\* stays true approves no second checkpoint.
C21_ReleaseBetweenDecisions ==
  /\ [](\A j \in DOMAIN log : IsPress(log[j]) => ReleasedBefore(j))
  /\ [][pc = "wn_accept" /\ pc' # "wn_accept" =>
          ~accept_button /\ pc' = "wn_cancel"]_vars
  /\ [][pc = "wn_cancel" /\ pc' \notin {"wn_cancel", "wn_accept"} =>
          ~cancel_button /\ log' = Append(log, <<"released">>)]_vars
  /\ [][log' # log /\ Len(log') > 0 /\ log'[Len(log')] = <<"released">> =>
          pc = "wn_cancel" /\ ~cancel_button]_vars

\* A backup approved at the status screen and at every page.
C21_Witness ==
  /\ BackupReturned
  /\ ret = FALSE
  /\ Len(Presses) = NumPages + 1
  /\ \A k \in 1..Len(Presses) : Approved(Presses[k])

(* ---------------- claims about the display bus ---------------- *)
\* C22 as stated: while writeString is between selecting data mode and
\* storing the pause, a tick sends no shift command (the position stays) and
\* does not change register select, so every character writeString emits is
\* sent with register select high.
C22_TickKeepsOffTheBusDuringWrite ==
  /\ [][LcdTick /\ pc \in WriteStringPcs =>
          scroll_pos' = scroll_pos /\ rs_pin' = rs_pin]_vars
  /\ [][pc = "ws_loop" /\ current_column' = current_column + 1 => rs_pin]_vars

(* ---------------- claims about what a confirmation leaves behind ---------------- *)
\* userDenied, or writeBackupSeed with destination 0, has returned.
ConfirmationReturned == Returned(Commands) \/ BackupReturned

\* C23: when userDenied returns, and when writeBackupSeed with destination 0
\* returns (approved through the last page, or cancelled at the status screen
\* or at a page), the last display operation of the call is a clear, done in
\* the step that returns, and the cursor and the scroll state are as clearLcd
\* leaves them: column 0, no line written, position 0, direction right.
C23_ClearedOnReturn ==
  /\ [](ConfirmationReturned =>
          /\ Len(log) > 0 /\ log[Len(log)] = <<"clear">>
          /\ current_column = 0 /\ max_line_size = 0
          /\ scroll_pos = 0 /\ ~scroll_to_left)
  /\ [][pc # "idle" /\ pc' = "idle" =>
          /\ log' = Append(log, <<"clear">>)
          /\ ~rs_pin']_vars

\* A backup cancelled at the first page, the seed's first 12 bytes having
\* been on the display.
C23_Witness ==
  /\ BackupReturned
  /\ ret = TRUE
  /\ Len(Presses) = 2
  /\ Approved(Presses[1]) /\ ~Approved(Presses[2])
  /\ SeedWrites # {}

====
